---- MODULE Spec2Model ----
(***************************************************************************)
(* A model of the DQN learning core of drl_api:                            *)
(*   - the linear epsilon scheduler  (models/base_dqn.py, class _eps),     *)
(*   - the value model with its eval and target networks                   *)
(*     (models/base_dqn.py, class DQN_Model),                              *)
(*   - the replay memory the model owns (drl_api.memory.ReplayMemory),     *)
(*   - the agent's training / evaluation loop (agents/dqn_agent.py).       *)
(*                                                                         *)
(* Epsilon, its floor and its decay are integers (units of one decay       *)
(* quantum, e.g. tenths).  Network parameters are abstract values: a       *)
(* number names one whole set of weights.                                  *)
(*                                                                         *)
(* Three specifications share the variables:                               *)
(*   SpecEps    the scheduler's methods called in any order,               *)
(*   SpecModel  the value model's methods called in any order,             *)
(*   Spec       the agent: train() and eval_step(), statement by statement.*)
(***************************************************************************)
EXTENDS Integers, Sequences, FiniteSets, TLC

\* ---------------------------------------------------------------- bounds
MaxEps      == 10   \* largest initial epsilon (SpecEps)
MaxMinEps   == 2    \* largest epsilon floor (SpecEps)
MaxDecay    == 2    \* largest decay step (SpecEps)
MaxCalls    == 10   \* get_eps() calls per run (SpecEps)
MaxParam    == 1    \* network parameter values are 1..MaxParam+1
MaxCapacity == 2    \* largest replay memory capacity
MaxBatch    == 2    \* largest batch_size
MaxFreq     == 2    \* largest learn_frequency
MaxUpdate   == 2    \* largest target_update
MaxSteps    == 3    \* training steps (agent_step) per run
MaxEpisodes == 2    \* largest argument of train()
MaxEvals    == 2    \* eval_step() calls a caller makes in a row
MaxGamma    == 2    \* largest discount factor (SpecLearn)
MaxQ        == 1    \* action values and rewards are -MaxQ..MaxQ (SpecLearn)
MaxMemCap   == 4    \* largest replay capacity (SpecMemory)
MaxPushes   == 6    \* pushes a caller makes (SpecMemory)

\* ------------------------------------------------------ program constants
Unset       == 0    \* a network attribute that does not exist yet
InitialBest == 0    \* self.max_avg_score = 0
AvgWindow   == 100  \* self.scores[-100:]
EvalPeriod  == 50   \* episode % 50 == 0

Params     == 1..(MaxParam + 1)
Rewards    == {1}
EvalScores == {-1, 0, 1}
Actions    == {1, 2}
QValues    == (-MaxQ)..MaxQ

VARIABLES
    \* _eps
    eps, min_eps, decay,
    eps_init,       \* the eps the scheduler was constructed with
    returned,       \* the values get_eps() has returned, in call order
    last_call,      \* the last scheduler call and the value it returned
    \* DQN_Model
    initialized,    \* Q_eval and Q_target exist (init_networks has run)
    Q_eval, Q_target,
    eval_hist,      \* every parameter value Q_eval has held since init_networks
    loaded,         \* the last load_save(): the parameters stored at the path,
                    \* and the two networks' parameters when it was called
    last_op,        \* the last DQN_Model method a caller of the model ran
    \* ReplayMemory
    memory_size, counter, slots,
    \* DQN_agent
    batch_size, target_update, learn_frequency,
    agent_step, score, done, random_batch,
    scores, avg_scores, eps_history,
    max_avg_score, avg_score,
    evals,          \* one record per eval_step(): its mean score, whether it saved
    sync_steps,     \* one record per replace_target_network() of train_step:
                    \* agent_step and the episode when it ran
    learn_steps,    \* agent_step at each learn() of train_step
    episodes, episode,
    pc, ret_to,
    error,          \* the exception that ended the run, "none" while there is none
    \* DQN_Model.learn, the bootstrap target
    gamma,          \* the discount factor
    batch_dict,     \* the batch learn() works on, one record per sample
    q_target        \* the bootstrap target learn() computed, one value per sample

epsVars   == <<eps, min_eps, decay, eps_init, returned, last_call>>
netVars   == <<initialized, Q_eval, Q_target, eval_hist, loaded>>
modelVars == <<netVars, last_op>>
memVars   == <<memory_size, counter, slots>>
agentVars == <<batch_size, target_update, learn_frequency, agent_step, score, done,
               random_batch, scores, avg_scores, eps_history, max_avg_score,
               avg_score, evals, sync_steps, learn_steps, episodes, episode, pc,
               ret_to, error>>
tdVars    == <<gamma, batch_dict, q_target>>
vars      == <<epsVars, modelVars, memVars, agentVars, tdVars>>

cfgVars   == <<batch_size, target_update, learn_frequency>>
logVars   == <<scores, avg_scores, eps_history>>
bestVars  == <<max_avg_score, avg_score, evals>>
callVars  == <<episodes, episode, ret_to, error>>
stepLogs  == <<sync_steps, learn_steps>>
loopVars  == <<cfgVars, agent_step, score, done, logVars, bestVars, stepLogs,
               episodes, episode, pc, ret_to>>
runVars   == <<loopVars, random_batch>>

Max(a, b) == IF a >= b THEN a ELSE b
Min(a, b) == IF a <= b THEN a ELSE b

\* =========================================================== class _eps
\* Each method is an operator from the fields to [eps: the field after the
\* call, ret: the value returned].

\* a scheduler that forgets the floor
get_eps_unclamped(e, m, d) == [eps |-> e - d, ret |-> e - d]

\* a scheduler that adds the decay step
get_eps_growing(e, m, d) == [eps |-> Max(m, e + d), ret |-> Max(m, e + d)]

\* the scheduler with the statements of get_eps in the other order
get_eps_return_first(e, m, d) == [eps |-> Max(m, e - d), ret |-> e]

\* self.eps = max(self.min_eps, self.eps - self.decay); return self.eps
get_eps(e, m, d) == [eps |-> Max(m, e - d), ret |-> Max(m, e - d)]

\* a no-decay getter that decays all the same
get_eps_no_decay_decaying(e, m, d) == [eps |-> Max(m, e - d), ret |-> e]

\* return self.eps
get_eps_no_decay(e, m, d) == [eps |-> e, ret |-> e]

\* return self.min_eps
get_min_eps(e, m, d) == [eps |-> e, ret |-> m]

\* One call of get_eps() on the scheduler
CallGetEps ==
    LET r == get_eps(eps, min_eps, decay) IN
    /\ eps' = r.eps
    /\ returned' = Append(returned, r.ret)
    /\ last_call' = [op |-> "get_eps", ret |-> r.ret]
    /\ UNCHANGED <<min_eps, decay, eps_init>>

\* One call of get_eps_no_decay() on the scheduler
CallGetEpsNoDecay ==
    LET r == get_eps_no_decay(eps, min_eps, decay) IN
    /\ eps' = r.eps
    /\ last_call' = [op |-> "get_eps_no_decay", ret |-> r.ret]
    /\ UNCHANGED <<min_eps, decay, eps_init, returned>>

\* One call of get_min_eps() on the scheduler
CallGetMinEps ==
    LET r == get_min_eps(eps, min_eps, decay) IN
    /\ eps' = r.eps
    /\ last_call' = [op |-> "get_min_eps", ret |-> r.ret]
    /\ UNCHANGED <<min_eps, decay, eps_init, returned>>

\* _eps.__init__(eps, min_eps, decay)
EpsConstructed(e, m, d) ==
    /\ eps = e
    /\ min_eps = m
    /\ decay = d
    /\ eps_init = e
    /\ returned = <<>>
    /\ last_call = [op |-> "__init__", ret |-> e]

\* ====================================================== class DQN_Model
\* The two networks after each method, as [Q_eval, Q_target].

\* target := eval
replace_target_network(qe, qt) == [Q_eval |-> qe, Q_target |-> qe]

\* a learn step whose optimizer also owns the target network's parameters
learn_training_target(qe, qt, new) == [Q_eval |-> new, Q_target |-> new]

\* learn: Q_eval.optimizer.step() moves the eval parameters to `new`; the
\* optimizer was built over Q_eval.parameters() alone
learn(qe, qt, new) == [Q_eval |-> new, Q_target |-> qt]

\* a load_save that restores the eval network only
load_save_eval_only(qe, qt, ckpt) == [Q_eval |-> ckpt, Q_target |-> qt]

\* both networks load the checkpoint at `path`, whose content is ckpt
load_save(qe, qt, ckpt) == [Q_eval |-> ckpt, Q_target |-> ckpt]

\* init_networks without its replace_target_network() call
init_networks_no_sync(evalInit, targetInit, xavier) ==
    [Q_eval |-> xavier, Q_target |-> targetInit]

\* init_networks: two freshly constructed networks, Xavier weights for eval,
\* then replace_target_network()
init_networks(evalInit, targetInit, xavier) ==
    replace_target_network(xavier, targetInit)

\* DQN_Model.__init__: no network attribute exists yet
\* no load_save() has run
NothingLoaded == [params |-> Unset, Q_eval |-> Unset, Q_target |-> Unset]

ModelConstructed ==
    /\ initialized = FALSE
    /\ Q_eval = Unset
    /\ Q_target = Unset
    /\ eval_hist = {}
    /\ loaded = NothingLoaded
    /\ last_op = "__init__"

\* DQN_Model.init_networks()
CallInitNetworks ==
    \E e0 \in Params, t0 \in Params, x \in Params :
        LET n == init_networks(e0, t0, x) IN
        /\ initialized' = TRUE
        /\ Q_eval' = n.Q_eval
        /\ Q_target' = n.Q_target
        /\ eval_hist' = {n.Q_eval}
        /\ UNCHANGED loaded

\* DQN_Model.learn(batch)
CallLearn ==
    /\ initialized
    /\ \E new \in Params :
        LET n == learn(Q_eval, Q_target, new) IN
        /\ Q_eval' = n.Q_eval
        /\ Q_target' = n.Q_target
        /\ eval_hist' = eval_hist \cup {n.Q_eval}
    /\ UNCHANGED <<initialized, loaded>>

\* DQN_Model.replace_target_network()
CallReplaceTargetNetwork ==
    /\ initialized
    /\ LET n == replace_target_network(Q_eval, Q_target) IN
        /\ Q_eval' = n.Q_eval
        /\ Q_target' = n.Q_target
        /\ eval_hist' = eval_hist \cup {n.Q_eval}
    /\ UNCHANGED <<initialized, loaded>>

\* DQN_Model.load_save(path)
CallLoadSave ==
    /\ initialized
    /\ \E ckpt \in Params :
        LET n == load_save(Q_eval, Q_target, ckpt) IN
        /\ Q_eval' = n.Q_eval
        /\ Q_target' = n.Q_target
        /\ eval_hist' = eval_hist \cup {n.Q_eval}
        /\ loaded' = [params |-> ckpt, Q_eval |-> Q_eval, Q_target |-> Q_target]
    /\ UNCHANGED initialized

\* ---- the bootstrap target of learn()
\* a learn() that leaves the next-state values of terminal samples as they are
mask_terminal_forgotten(q, terminal) == q

\* q_next[batch_dict['terminal']] = 0.0, for one row of q_next
mask_terminal(q, terminal) == [a \in DOMAIN q |-> IF terminal THEN 0 ELSE q[a]]

\* torch.max(q_next, dim=1)[0], for one row of q_next
max_over_actions(q) == CHOOSE v \in {q[a] : a \in DOMAIN q} : \A a \in DOMAIN q : v >= q[a]

\* q_target = reward + gamma * torch.max(q_next, dim=1)[0], sample by sample
compute_q_target(batch, g) ==
    [i \in 1..Len(batch) |->
        batch[i].reward + g * max_over_actions(mask_terminal(batch[i].q_next,
                                                              batch[i].terminal))]

\* no learn() has computed a target yet; the model's discount factor is g
LearnIdle(g) ==
    /\ gamma = g
    /\ batch_dict = <<>>
    /\ q_target = <<>>

\* DQN_Model.get_action(state): a forward pass, no parameter changes
CallGetAction ==
    /\ initialized
    /\ UNCHANGED netVars

\* A method that reads self.Q_eval or self.Q_target before init_networks()
\* has created them: the attribute lookup raises, nothing has been assigned
RaiseAttributeError ==
    /\ ~initialized
    /\ error' = "AttributeError"
    /\ UNCHANGED netVars

\* the method returns normally
Returns == error' = "none"

\* ==================================================== class ReplayMemory
\* size(): the number of readable entries
size(cnt, cap) == Min(cnt, cap)

\* a push that stops at the last slot instead of wrapping around
push_no_wrap(sl, cnt, cap, transition) ==
    [slots |-> [sl EXCEPT ![Min(cnt, cap - 1)] = transition], counter |-> cnt + 1]

\* push(transition): write slot counter mod capacity, count one more
push(sl, cnt, cap, transition) ==
    [slots |-> [sl EXCEPT ![cnt % cap] = transition], counter |-> cnt + 1]

\* a sample that draws from every slot of the buffer, written or not
sample_any_slot(sl, cnt, cap, n) ==
    { [i \in 1..n |-> sl[ix[i]]] : ix \in [1..n -> 0..(cap - 1)] }

\* sample(batch_size): the batches it can return, each a sequence of
\* batch_size transitions read from slots below size(), with replacement
sample(sl, cnt, cap, n) ==
    { [i \in 1..n |-> sl[ix[i]]] : ix \in [1..n -> 0..(size(cnt, cap) - 1)] }

\* ReplayMemory(memory_size): no push yet
MemoryConstructed(cap) ==
    /\ memory_size = cap
    /\ counter = 0
    /\ slots = [i \in 0..(cap - 1) |-> Unset]

\* ====================================================== class DQN_agent
RECURSIVE SumSeq(_)
SumSeq(s) == IF s = <<>> THEN 0 ELSE s[1] + SumSeq(Tail(s))

\* s[-n:]
LastN(s, n) == SubSeq(s, Max(1, Len(s) - n + 1), Len(s))

\* np.mean(s), kept exact as <<sum, count>>
mean(s) == <<SumSeq(s), Len(s)>>

\* DQN_Model.get_counter(): the replay memory's write counter
get_counter == counter

\* a gate that learns at every step once the counter allows it
learn_gate_every_step == get_counter > batch_size

\* the condition of train_step's "learn something"
learn_gate ==
    /\ get_counter > batch_size
    /\ agent_step % learn_frequency = 0

\* the condition of train_step's "update target network"
target_gate == agent_step % target_update = 0

\* a train that evaluates once every EvalPeriod episodes are complete
eval_due_after_period(ep) == (ep + 1) % EvalPeriod = 0

\* the condition of train's "evaluate the model"
eval_due(ep) == ep % EvalPeriod = 0

\* the condition of eval_step's "if best then save"
is_best(avg, best) == avg > best

\* DQN_agent.__init__: the fields it sets, self.model.init_networks() done
AgentConstructed(bs, tu, lf) ==
    /\ batch_size = bs
    /\ target_update = tu
    /\ learn_frequency = lf
    /\ agent_step = 0
    /\ score = 0
    /\ done = FALSE
    /\ random_batch = <<>>
    /\ scores = <<>>
    /\ avg_scores = <<>>
    /\ eps_history = <<>>
    /\ max_avg_score = InitialBest
    /\ avg_score = 0
    /\ evals = <<>>
    /\ sync_steps = <<>>
    /\ learn_steps = <<>>
    /\ episodes = 0
    /\ episode = 0
    /\ pc = "idle"
    /\ ret_to = "idle"
    /\ error = "none"

\* The networks as DQN_agent.__init__ leaves them: init_networks() has run
NetworksInitialized ==
    \E e0 \in Params, t0 \in Params, x \in Params :
        LET n == init_networks(e0, t0, x) IN
        /\ initialized = TRUE
        /\ Q_eval = n.Q_eval
        /\ Q_target = n.Q_target
        /\ eval_hist = {n.Q_eval}
        /\ loaded = NothingLoaded
        /\ last_op = "init_networks"

\* ---- train(episodes)
\* a caller invokes agent.train(n) on the agent as constructed
Train ==
    /\ pc = "idle"
    /\ evals = <<>>
    /\ \E n \in 0..MaxEpisodes : episodes' = n
    /\ episode' = 0
    /\ pc' = "train_for"
    /\ UNCHANGED <<epsVars, modelVars, memVars, cfgVars, tdVars, stepLogs, logVars, bestVars,
                   agent_step, score, done, random_batch, ret_to, error>>

\* for episode in range(episodes): eps_history.append(eps.get_eps_no_decay())
TrainFor ==
    /\ pc = "train_for"
    /\ IF episode < episodes
       THEN /\ CallGetEpsNoDecay
            /\ eps_history' = Append(eps_history, last_call'.ret)
            /\ pc' = "ts_reset"
       ELSE /\ pc' = "train_save"
            /\ UNCHANGED <<epsVars, eps_history>>
    /\ UNCHANGED <<modelVars, memVars, cfgVars, tdVars, stepLogs, bestVars, callVars, scores,
                   avg_scores, agent_step, score, done, random_batch>>

\* ---- train_step()
\* a train_step that starts every episode with a step counter of zero
TsResetStepCounter ==
    /\ pc = "ts_reset"
    /\ score' = 0
    /\ done' = FALSE
    /\ agent_step' = 0
    /\ pc' = "ts_act"
    /\ UNCHANGED <<epsVars, modelVars, memVars, cfgVars, tdVars, stepLogs, logVars,
                   bestVars, callVars, random_batch>>

\* score = 0; obs = env_train.reset(); done = False
TsReset ==
    /\ pc = "ts_reset"
    /\ score' = 0
    /\ done' = FALSE
    /\ pc' = "ts_act"
    /\ UNCHANGED <<epsVars, modelVars, memVars, cfgVars, tdVars, stepLogs, logVars, bestVars,
                   callVars, agent_step, random_batch>>

\* an act_train that reads epsilon without decaying it
ActTrainPeeking ==
    /\ pc = "ts_act"
    /\ CallGetEpsNoDecay
    /\ CallGetAction \/ UNCHANGED netVars
    /\ pc' = "ts_step"
    /\ UNCHANGED <<last_op, memVars, cfgVars, tdVars, stepLogs, logVars, bestVars, callVars, agent_step,
                   score, done, random_batch>>

\* action = self.act_train(obs): one get_eps(), then greedy or random
ActTrain ==
    /\ pc = "ts_act"
    /\ CallGetEps
    /\ CallGetAction \/ UNCHANGED netVars   \* greedy, or np.random.choice
    /\ pc' = "ts_step"
    /\ UNCHANGED <<last_op, memVars, cfgVars, tdVars, stepLogs, logVars, bestVars, callVars, agent_step,
                   score, done, random_batch>>

\* obs_, reward, done, info = env_train.step(action); score += reward
\* (the environment ends the episode at the latest when the run's step
\* budget is used up)
EnvStep ==
    /\ pc = "ts_step"
    /\ \E r \in Rewards : score' = score + r
    /\ \E d \in BOOLEAN :
        /\ (agent_step + 1 >= MaxSteps) => d
        /\ done' = d
    /\ pc' = "ts_store"
    /\ UNCHANGED <<epsVars, modelVars, memVars, cfgVars, tdVars, stepLogs, logVars, bestVars,
                   callVars, agent_step, random_batch>>

\* self.model.store_transition(obs, action, reward, obs_, done); the
\* transition is named by its push number
StoreTransition ==
    /\ pc = "ts_store"
    /\ LET m == push(slots, counter, memory_size, counter + 1) IN
        /\ slots' = m.slots
        /\ counter' = m.counter
    /\ pc' = "ts_learn"
    /\ UNCHANGED <<epsVars, modelVars, memory_size, cfgVars, tdVars, stepLogs, logVars, bestVars,
                   callVars, agent_step, score, done, random_batch>>

\* if get_counter() > batch_size and agent_step % learn_frequency == 0
LearnCheck ==
    /\ pc = "ts_learn"
    /\ pc' = IF learn_gate THEN "ts_sample" ELSE "ts_incr"
    /\ UNCHANGED <<epsVars, modelVars, memVars, cfgVars, tdVars, stepLogs, logVars, bestVars,
                   callVars, agent_step, score, done, random_batch>>

\* random_batch = self.model.sample(batch_size=self.batch_size)
Sample ==
    /\ pc = "ts_sample"
    /\ size(counter, memory_size) > 0
    /\ random_batch' \in sample(slots, counter, memory_size, batch_size)
    /\ pc' = "ts_call_learn"
    /\ UNCHANGED <<epsVars, modelVars, memVars, cfgVars, tdVars, stepLogs, logVars, bestVars,
                   callVars, agent_step, score, done>>

\* self.learn(random_batch)
Learn ==
    /\ pc = "ts_call_learn"
    /\ CallLearn
    /\ learn_steps' = Append(learn_steps, agent_step)
    /\ random_batch' = <<>>                 \* the batch is not read again
    /\ pc' = "ts_incr"
    /\ UNCHANGED <<last_op, epsVars, memVars, cfgVars, tdVars, sync_steps, logVars,
                   bestVars, callVars, agent_step, score, done>>

\* a loop body that has not yet counted the step when it reaches the target check
IncrStepDeferred ==
    /\ pc = "ts_incr"
    /\ pc' = "ts_target"
    /\ UNCHANGED <<epsVars, modelVars, memVars, cfgVars, tdVars, stepLogs, logVars, bestVars,
                   callVars, agent_step, score, done, random_batch>>

\* obs = obs_; self.agent_step += 1
IncrStep ==
    /\ pc = "ts_incr"
    /\ agent_step' = agent_step + 1
    /\ pc' = "ts_target"
    /\ UNCHANGED <<epsVars, modelVars, memVars, cfgVars, tdVars, stepLogs, logVars, bestVars,
                   callVars, score, done, random_batch>>

\* if agent_step % target_update == 0: replace_target_network(); then the
\* while test: another iteration, or model.done = True and return score
TargetCheck ==
    /\ pc = "ts_target"
    /\ IF target_gate
       THEN /\ CallReplaceTargetNetwork
            /\ sync_steps' = Append(sync_steps, [step |-> agent_step,
                                                 episode |-> episode])
       ELSE UNCHANGED <<netVars, sync_steps>>
    /\ pc' = IF done THEN "train_record" ELSE "ts_act"
    /\ UNCHANGED <<last_op, epsVars, memVars, cfgVars, tdVars, learn_steps, logVars,
                   bestVars, callVars, agent_step, score, done, random_batch>>

\* ---- train(episodes), after train_step() returned
\* scores.append(score); avg_scores.append(np.mean(scores[-100:]));
\* if episode % 50 == 0: self.eval_step(render=False)
TrainRecord ==
    /\ pc = "train_record"
    /\ scores' = Append(scores, score)
    /\ avg_scores' = Append(avg_scores, mean(LastN(scores', AvgWindow)))
    /\ IF eval_due(episode)
       THEN /\ pc' = "eval_play"
            /\ ret_to' = "train"
       ELSE /\ pc' = "train_print"
            /\ UNCHANGED ret_to
    /\ UNCHANGED <<epsVars, modelVars, memVars, cfgVars, tdVars, stepLogs, bestVars, eps_history,
                   episodes, episode, error, agent_step, score, done, random_batch>>

\* print(fmt.format(..., self.model.eps.get_eps_no_decay(), 0)); next episode
TrainPrint ==
    /\ pc = "train_print"
    /\ CallGetEpsNoDecay
    /\ episode' = episode + 1
    /\ pc' = "train_for"
    /\ UNCHANGED <<modelVars, memVars, cfgVars, tdVars, stepLogs, logVars, bestVars, episodes,
                   ret_to, error, agent_step, score, done, random_batch>>

\* after the loop: self.avg_scores = np.array(self.avg_scores);
\* np.save(self.avg_scores) is called without its `arr` argument and raises
\* TypeError, which leaves train()
TrainSave ==
    /\ pc = "train_save"
    /\ pc' = "raised"
    /\ error' = "TypeError"
    /\ UNCHANGED <<epsVars, modelVars, memVars, cfgVars, tdVars, stepLogs, logVars, bestVars,
                   episodes, episode, ret_to, agent_step, score, done,
                   random_batch>>

\* ---- eval_step()
\* a caller invokes agent.eval_step()
EvalStep ==
    /\ pc = "idle"
    /\ Len(evals) < MaxEvals
    /\ pc' = "eval_play"
    /\ ret_to' = "idle"
    /\ UNCHANGED <<epsVars, modelVars, memVars, cfgVars, tdVars, stepLogs, logVars, bestVars,
                   episodes, episode, error, agent_step, score, done,
                   random_batch>>

\* inside self.play(rounds): action = self.act_eval(obs), one get_min_eps(),
\* then greedy or random
ActEval ==
    /\ pc = "eval_play"
    /\ CallGetMinEps
    /\ CallGetAction \/ UNCHANGED netVars   \* greedy, or np.random.choice
    /\ UNCHANGED <<last_op, memVars, agentVars, tdVars>>

\* avg_score = self.play(rounds=rounds)
PlayReturn ==
    /\ pc = "eval_play"
    /\ avg_score' \in EvalScores
    /\ pc' = "eval_best"
    /\ UNCHANGED <<epsVars, modelVars, memVars, cfgVars, tdVars, stepLogs, logVars, callVars,
                   max_avg_score, evals, agent_step, score, done, random_batch>>

\* if avg_score > self.max_avg_score: record it and save_model(Q_eval, ...)
EvalBest ==
    /\ pc = "eval_best"
    /\ IF is_best(avg_score, max_avg_score)
       THEN /\ max_avg_score' = avg_score
            /\ evals' = Append(evals, [score |-> avg_score, saved |-> TRUE])
       ELSE /\ UNCHANGED max_avg_score
            /\ evals' = Append(evals, [score |-> avg_score, saved |-> FALSE])
    /\ pc' = IF ret_to = "train" THEN "train_print" ELSE "idle"
    /\ UNCHANGED <<epsVars, modelVars, memVars, cfgVars, tdVars, stepLogs, logVars, callVars,
                   avg_score, agent_step, score, done, random_batch>>

\* ====================================================== specifications
\* ---- the agent
Init ==
    /\ EpsConstructed(3, 1, 1)
    /\ LearnIdle(1)
    /\ NetworksInitialized
    /\ \E cap \in 1..MaxCapacity : MemoryConstructed(cap)
    /\ \E bs \in 1..MaxBatch, tu \in 1..MaxUpdate, lf \in 1..MaxFreq :
        AgentConstructed(bs, tu, lf)

Next ==
    \/ Train
    \/ TrainFor
    \/ TsReset
    \/ ActTrain
    \/ EnvStep
    \/ StoreTransition
    \/ LearnCheck
    \/ Sample
    \/ Learn
    \/ IncrStep
    \/ TargetCheck
    \/ TrainRecord
    \/ TrainPrint
    \/ TrainSave
    \/ EvalStep
    \/ ActEval
    \/ PlayReturn
    \/ EvalBest

Spec == Init /\ [][Next]_vars

\* ---- the scheduler alone
InitEps ==
    /\ \E e \in 0..MaxEps, m \in 0..MaxMinEps, d \in (-1)..MaxDecay :
        EpsConstructed(e, m, d)
    /\ ModelConstructed
    /\ MemoryConstructed(1)
    /\ AgentConstructed(1, 1, 1)
    /\ LearnIdle(1)

GetEps ==
    /\ Len(returned) < MaxCalls
    /\ CallGetEps
    /\ UNCHANGED <<modelVars, memVars, agentVars, tdVars>>

GetEpsNoDecay ==
    /\ CallGetEpsNoDecay
    /\ UNCHANGED <<modelVars, memVars, agentVars, tdVars>>

GetMinEps ==
    /\ CallGetMinEps
    /\ UNCHANGED <<modelVars, memVars, agentVars, tdVars>>

NextEps ==
    \/ GetEps
    \/ GetEpsNoDecay
    \/ GetMinEps

SpecEps == InitEps /\ [][NextEps]_vars

\* ---- the value model alone
InitModel ==
    /\ \E e \in 1..2, m \in 0..1 : EpsConstructed(e, m, 1)
    /\ ModelConstructed
    /\ \E cap \in 1..MaxCapacity : MemoryConstructed(cap)
    /\ AgentConstructed(1, 1, 1)
    /\ LearnIdle(1)

InitNetworks ==
    /\ CallInitNetworks
    /\ Returns
    /\ last_op' = "init_networks"
    /\ UNCHANGED <<epsVars, memVars, runVars, tdVars>>

ModelLearn ==
    /\ \/ CallLearn /\ Returns
       \/ RaiseAttributeError
    /\ last_op' = "learn"
    /\ UNCHANGED <<epsVars, memVars, runVars, tdVars>>

ReplaceTargetNetwork ==
    /\ \/ CallReplaceTargetNetwork /\ Returns
       \/ RaiseAttributeError
    /\ last_op' = "replace_target_network"
    /\ UNCHANGED <<epsVars, memVars, runVars, tdVars>>

LoadSave ==
    /\ \/ CallLoadSave /\ Returns
       \/ RaiseAttributeError
    /\ last_op' = "load_save"
    /\ UNCHANGED <<epsVars, memVars, runVars, tdVars>>

\* a get_action that answers on a model without networks
GetActionUnguarded ==
    /\ \/ CallGetAction /\ Returns
       \/ ~initialized /\ Returns /\ UNCHANGED netVars
    /\ last_op' = "get_action"
    /\ UNCHANGED <<epsVars, memVars, runVars, tdVars>>

GetAction ==
    /\ \/ CallGetAction /\ Returns
       \/ RaiseAttributeError
    /\ last_op' = "get_action"
    /\ UNCHANGED <<epsVars, memVars, runVars, tdVars>>

NextModel ==
    \/ InitNetworks
    \/ ModelLearn
    \/ ReplaceTargetNetwork
    \/ LoadSave
    \/ GetAction

SpecModel == InitModel /\ [][NextModel]_vars

\* ---- the bootstrap target of learn() alone
\* one sample of a batch: its reward, its terminal flag and the target
\* network's action values for its next state
Samples == [reward : QValues, terminal : BOOLEAN, q_next : [Actions -> QValues]]

InitLearn ==
    /\ EpsConstructed(1, 1, 1)
    /\ ModelConstructed
    /\ MemoryConstructed(1)
    /\ AgentConstructed(1, 1, 1)
    /\ \E g \in 0..MaxGamma : LearnIdle(g)

\* learn(batch) up to q_target, on a batch of one or two samples
LearnTarget ==
    /\ batch_dict = <<>>
    /\ \E n \in 1..2 : \E b \in [1..n -> Samples] :
        /\ batch_dict' = b
        /\ q_target' = compute_q_target(b, gamma)
    /\ UNCHANGED <<epsVars, modelVars, memVars, agentVars, gamma>>

NextLearn == LearnTarget

SpecLearn == InitLearn /\ [][NextLearn]_vars

\* ---- the replay memory alone, through the model's forwarding methods
InitMemory ==
    /\ EpsConstructed(1, 1, 1)
    /\ NetworksInitialized
    /\ \E cap \in 1..MaxMemCap : MemoryConstructed(cap)
    /\ AgentConstructed(1, 1, 1)
    /\ LearnIdle(1)

\* DQN_Model.store_transition(transition): replay_memory.push; the
\* transition of the i-th push (0-based) is labeled i + 1
StoreTransitionCall ==
    /\ counter < MaxPushes
    /\ LET m == push(slots, counter, memory_size, counter + 1) IN
        /\ slots' = m.slots
        /\ counter' = m.counter
    /\ Returns
    /\ last_op' = "store_transition"
    /\ UNCHANGED <<epsVars, netVars, memory_size, runVars, tdVars>>

\* DQN_Model.sample(n): replay_memory.sample, which fails on an empty memory
SampleCall ==
    /\ \E n \in 1..MaxBatch :
        IF size(counter, memory_size) = 0
        THEN /\ error' = "InsufficientDataError"
             /\ UNCHANGED random_batch
        ELSE /\ random_batch' \in sample(slots, counter, memory_size, n)
             /\ Returns
    /\ last_op' = "sample"
    /\ UNCHANGED <<epsVars, netVars, memVars, loopVars, tdVars>>

NextMemory ==
    \/ StoreTransitionCall
    \/ SampleCall

SpecMemory == InitMemory /\ [][NextMemory]_vars

\* ---- train() over runs long enough for its evaluation schedule
\* the numbers of episodes a caller asks for
ScheduleEpisodes == {0, 1, EvalPeriod, EvalPeriod + 1, 2 * EvalPeriod + 1}

InitSchedule ==
    /\ EpsConstructed(3, 1, 1)
    /\ LearnIdle(1)
    /\ NetworksInitialized
    /\ MemoryConstructed(1)
    /\ AgentConstructed(1, 1, 1)

\* a caller invokes agent.train(n) on the agent as constructed
TrainLong ==
    /\ pc = "idle"
    /\ evals = <<>>
    /\ \E n \in ScheduleEpisodes : episodes' = n
    /\ episode' = 0
    /\ pc' = "train_for"
    /\ UNCHANGED <<epsVars, modelVars, memVars, cfgVars, tdVars, stepLogs, logVars,
                   bestVars, agent_step, score, done, random_batch, ret_to, error>>

NextSchedule ==
    \/ TrainLong
    \/ TrainFor
    \/ TsReset
    \/ ActTrain
    \/ EnvStep
    \/ StoreTransition
    \/ LearnCheck
    \/ Sample
    \/ Learn
    \/ IncrStep
    \/ TargetCheck
    \/ TrainRecord
    \/ TrainPrint
    \/ TrainSave
    \/ ActEval
    \/ PlayReturn
    \/ EvalBest

SpecSchedule == InitSchedule /\ [][NextSchedule]_vars

\* ================================================================ claims
\* the last value get_eps() returned
LastReturned == returned[Len(returned)]

\* ---- C1 (under Spec)
\* C1: learn() and the sample() that feeds it are never invoked while the
\* replay memory's size() = min(counter, capacity) is <= batch_size.
C1_LearnOnlyAboveBatchSize ==
    pc \in {"ts_sample", "ts_call_learn"} => size(counter, memory_size) > batch_size

\* ---- C2 (under SpecEps)
\* C2, as stated: a get_eps() call returns the epsilon held before the call,
\* and leaves epsilon at max(min_eps, pre-call epsilon - decay).
C2_ReturnsPreCallEps ==
    [][Len(returned') = Len(returned) + 1 =>
          /\ returned'[Len(returned')] = eps
          /\ eps' = Max(min_eps, eps - decay)]_vars

\* C2, amended: a get_eps() call first sets epsilon to
\* max(min_eps, pre-call epsilon - decay) and returns that new value.
C2_ReturnsDecayedEps ==
    [][Len(returned') = Len(returned) + 1 =>
          /\ eps' = Max(min_eps, eps - decay)
          /\ returned'[Len(returned')] = eps']_vars

\* C2 witness: the first call has returned a value below the initial epsilon.
C2_Witness ==
    /\ Len(returned) = 1
    /\ decay > 0
    /\ returned[1] = eps_init - decay
    /\ eps = returned[1]

C4_MonotonicDecay ==
    (eps_init >= min_eps /\ decay >= 0) =>
        /\ \A i \in 1..Len(returned) : returned[i] >= min_eps
        /\ \A i \in 1..Len(returned), j \in 1..Len(returned) :
            i < j => /\ returned[j] <= returned[i]
                     /\ returned[i] = min_eps => returned[j] = min_eps

\* C4 witness: a strictly decreasing stretch, then the floor twice, with the
\* other two getters called in between.
C4_Witness ==
    /\ Len(returned) >= 4
    /\ returned[1] > returned[2]
    /\ returned[Len(returned) - 1] = min_eps
    /\ LastReturned = min_eps
    /\ eps_init > min_eps
    /\ last_call.op = "get_eps_no_decay"

\* ---- C5 (under SpecModel)
\* C5: once init_networks() has run, after any sequence of learn(),
\* replace_target_network() and load_save() the target parameters are a
\* value the eval network has held.
C5_TargetIsSnapshot == initialized => Q_target \in eval_hist

\* C5 witness: a checkpoint was loaded after eval had held every parameter
\* value, and both networks now hold the checkpoint.
C5_Witness ==
    /\ initialized
    /\ last_op = "load_save"
    /\ Q_target = Q_eval
    /\ eval_hist = Params

\* ---- C6 (under SpecModel)
\* C6: replace_target_network() leaves both networks identical, and a
\* learn() (like a get_action()) leaves the target parameters as they were.
C6_SyncThenFrozen ==
    [][/\ last_op' = "replace_target_network" => Q_target' = Q_eval'
       /\ last_op' \in {"learn", "get_action"} => Q_target' = Q_target]_vars

\* C6 witness: a learn() has moved eval away from the target, which keeps
\* the value of the last sync.
C6_Witness ==
    /\ last_op = "learn"
    /\ Q_target # Q_eval
    /\ Q_target \in eval_hist

\* ---- C7 (under Spec)
\* C7, as stated: the target check of an iteration is evaluated before that
\* iteration's increment of agent_step, like its learn check (one push
\* ahead of the step counter).
C7_TargetCheckBeforeIncrement ==
    pc \in {"ts_learn", "ts_target"} => counter = agent_step + 1

\* C7, amended: an iteration selects the action, steps the environment,
\* pushes the transition, runs the gated learn, increments agent_step and
\* only then runs the gated target sync: the learn check sees the
\* pre-increment step counter, the target check the post-increment one.
C7_IncrementBeforeTargetCheck ==
    /\ pc = "ts_act" => Len(returned) = agent_step /\ counter = agent_step
    /\ pc \in {"ts_step", "ts_store"} =>
          Len(returned) = agent_step + 1 /\ counter = agent_step
    /\ pc \in {"ts_learn", "ts_sample", "ts_call_learn", "ts_incr"} =>
          Len(returned) = agent_step + 1 /\ counter = agent_step + 1
    /\ pc = "ts_target" => Len(returned) = agent_step /\ counter = agent_step

\* C7 witness: the target check is about to fire for the second step, which
\* is already counted.
C7_Witness ==
    /\ pc = "ts_target"
    /\ target_gate
    /\ target_update = 2
    /\ agent_step = 2
    /\ counter = 2

\* ---- C8 (under Spec)
\* C8: eval_step() saves the eval parameters at exactly the evaluations
\* whose mean score exceeds every earlier one, and the best-score record is
\* the largest mean score seen so far.
C8_SavesExactlyNewBest ==
    /\ \A i \in 1..Len(evals) :
          evals[i].saved <=> (\A j \in 1..(i - 1) : evals[i].score > evals[j].score)
    /\ Len(evals) >= 1 =>
          /\ \E i \in 1..Len(evals) : max_avg_score = evals[i].score
          /\ \A i \in 1..Len(evals) : max_avg_score >= evals[i].score

\* ---- C9 (under Spec)
\* C9: once train(episodes) is over it has returned normally, with one
\* score and one moving average per episode.
C9_TrainReturnsNormally ==
    pc \in {"raised", "returned"} =>
        /\ pc = "returned"
        /\ error = "none"
        /\ Len(scores) = episodes
        /\ Len(avg_scores) = episodes

\* ---- C10 (under Spec)
\* C10: epsilon changes only in act_train (training-time action selection):
\* the logging reads of train(), act_eval and everything else leave it alone.
C10_OnlyActTrainDecays == [][eps' # eps => pc = "ts_act"]_vars

\* C10 witness: an evaluation-time action selection after epsilon was logged
\* and decayed by training.
C10_Witness ==
    /\ pc = "eval_play"
    /\ last_call.op = "get_min_eps"
    /\ Len(eps_history) >= 1
    /\ eps < eps_init

\* ---- C11 (under Spec)
\* inside one loop iteration of train_step, between act_train and the
\* increment of agent_step
InIteration == pc \in {"ts_step", "ts_store", "ts_learn", "ts_sample",
                       "ts_call_learn", "ts_incr"}

\* C11: get_eps() is called exactly once per training step: outside an
\* iteration the number of get_eps() calls equals agent_step (inside, the
\* call of the step in progress is one ahead), and while
\* eps_init - decay * agent_step has not gone below the floor it is epsilon.
C11_OneDecayPerStep ==
    /\ InIteration => Len(returned) = agent_step + 1
    /\ ~InIteration =>
          /\ Len(returned) = agent_step
          /\ (eps_init - decay * agent_step >= min_eps) =>
                eps = eps_init - decay * agent_step

\* C11 witness: an episode has ended after two steps and two decays, with
\* epsilon still given by the linear law.
C11_Witness ==
    /\ pc = "train_record"
    /\ agent_step = 2
    /\ Len(returned) = 2
    /\ decay > 0
    /\ eps = eps_init - 2 * decay
    /\ eps < eps_init

\* ---- C12 (under SpecLearn)
\* C12: for every sample of the batch, q_target is the reward alone when the
\* sample is terminal, whatever q_next holds, and otherwise the reward plus
\* gamma times the largest action value of q_next.
C12_TerminalBootstrap ==
    \A i \in 1..Len(batch_dict) :
        LET s == batch_dict[i] IN
        IF s.terminal
        THEN q_target[i] = s.reward
        ELSE /\ \E a \in Actions : q_target[i] = s.reward + gamma * s.q_next[a]
             /\ \A a \in Actions : q_target[i] >= s.reward + gamma * s.q_next[a]

\* C12 witness: a batch whose first sample is terminal with all-negative
\* next-state values and whose second is not terminal and bootstraps.
C12_Witness ==
    /\ Len(batch_dict) = 2
    /\ gamma = 2
    /\ batch_dict[1].terminal
    /\ \A a \in Actions : batch_dict[1].q_next[a] < 0
    /\ q_target[1] = batch_dict[1].reward
    /\ ~batch_dict[2].terminal
    /\ q_target[2] = batch_dict[2].reward - 2

\* ---- C13 (under SpecModel)
MethodsNeedingNetworks == {"get_action", "learn", "replace_target_network", "load_save"}

C14_LoadRestoresSync ==
    (last_op = "load_save" /\ error = "none") =>
        /\ Q_eval = loaded.params
        /\ Q_target = loaded.params
        /\ Q_eval = Q_target

\* C14 witness: a load_save() on networks that differed (eval trained since
\* the last sync), where the stored parameters were not the target's.
C14_Witness ==
    /\ last_op = "load_save" /\ error = "none"
    /\ loaded.Q_eval # loaded.Q_target
    /\ loaded.params # loaded.Q_target
    /\ Q_eval = loaded.params /\ Q_target = loaded.params

\* ---- C15 (under SpecMemory)
\* the transitions sample() can read
Readable == {slots[k] : k \in 0..(size(counter, memory_size) - 1)}

\* C15: the i-th push (0-based) writes slot i mod capacity, leaves the other
\* slots alone and adds one to the counter; size() is the smaller of the
\* number of pushes and the capacity; the readable entries are exactly the
\* most recent size() transitions pushed.
C15_CapacityInvariant ==
    [][/\ last_op' = "store_transition" =>
            /\ counter' = counter + 1
            /\ slots'[counter % memory_size] = counter + 1
            /\ \A k \in 0..(memory_size - 1) :
                    k # counter % memory_size => slots'[k] = slots[k]
       /\ size(counter', memory_size') = IF counter' <= memory_size'
                                         THEN counter' ELSE memory_size'
       /\ Readable' = (counter' - size(counter', memory_size') + 1)..counter']_vars

\* C15 witness: capacity 4 after the pushes 1..6: size() is 4 and the
\* memory holds 3, 4, 5 and 6, the last two in the slots 1 and 2 held.
C15_Witness ==
    /\ memory_size = 4 /\ counter = 6
    /\ size(counter, memory_size) = 4
    /\ Readable = {3, 4, 5, 6}
    /\ slots[0] = 5 /\ slots[1] = 6 /\ slots[2] = 3 /\ slots[3] = 4

\* ---- C16 (under SpecMemory)
\* C16: a sample() that returns data returns only transitions held in slots
\* below size(), none of them an unwritten slot; a sample() on a memory
\* without any push fails with InsufficientDataError and returns nothing.
C16_SamplingBounds ==
    [][last_op' = "sample" =>
         IF counter = 0
         THEN error' = "InsufficientDataError" /\ random_batch' = random_batch
         ELSE /\ error' = "none"
              /\ Len(random_batch') \in 1..MaxBatch
              /\ \A i \in 1..Len(random_batch') :
                    /\ random_batch'[i] # Unset
                    /\ \E k \in 0..(size(counter, memory_size) - 1) :
                            random_batch'[i] = slots[k]]_vars

\* C16 witness: a batch of two drawn from a memory of capacity above one
\* holding a single transition: both entries are that transition.
C16_Witness ==
    /\ last_op = "sample" /\ error = "none"
    /\ memory_size > 1 /\ counter = 1
    /\ slots[1] = Unset
    /\ random_batch = <<1, 1>>

\* ---- C17 (under Spec)
\* C17: agent_step never goes back, in particular not at the start of an
\* episode, and the i-th replace_target_network() of the training loop runs
\* at step i * target_update: target_update steps after the one before it,
\* whatever episode ends or evaluation runs in between.
C17_SyncEveryTargetUpdateSteps ==
    [][/\ agent_step' \in {agent_step, agent_step + 1}
       /\ \A i \in 1..Len(sync_steps') :
            /\ sync_steps'[i].step = i * target_update
            /\ i > 1 => sync_steps'[i].step - sync_steps'[i - 1].step = target_update
       /\ (pc' \in {"ts_act", "train_record"}) =>
            Len(sync_steps') = agent_step' \div target_update]_vars

\* C17 witness: with target_update 2 the first sync ran at step 2 in episode
\* 0 and the second at step 4 in episode 1, after the evaluation that
\* follows episode 0.
C17_Witness ==
    /\ target_update = 2
    /\ Len(sync_steps) = 2
    /\ sync_steps[1] = [step |-> 2, episode |-> 0]
    /\ sync_steps[2] = [step |-> 4, episode |-> 1]
    /\ Len(evals) = 1 /\ Len(scores) = 1

\* ---- C18 (under Spec)
\* the loop iterations whose learn check has been decided: iteration s is the
\* one that runs with agent_step = s
DecidedIterations ==
    IF pc \in {"ts_incr"} THEN 0..agent_step ELSE 0..(agent_step - 1)

EvalsAfter(n) == (n + EvalPeriod - 1) \div EvalPeriod

====
